---- MODULE Spec2Model ----
(***************************************************************************)
(* A model of gesquive/cli: the slog handler that renders a log record     *)
(* into one line of text (src/unnamed/part_001, the variant the tests      *)
(* construct with NewHandler).                                             *)
(*                                                                         *)
(* Text is modelled character by character: a text is a sequence of        *)
(* characters, a character is a one-character string, and the characters   *)
(* that have no printable form are the named atoms NL, TAB, NUL and ESC.   *)
(* Go slices are modelled as in the runtime: a slice header (array, len,   *)
(* cap) over a backing array kept in `heap`.                               *)
(***************************************************************************)
EXTENDS Integers, Sequences, FiniteSets, TLC

VARIABLES
  handlers,   \* the Handler objects, in creation order (index = identity)
  heap,       \* backing arrays of the handlers' groups slices
  hist,       \* per handler, history: its parent, the call that derived it, and
              \* the group names and WithAttrs texts of its derivation chain
  out,        \* the bytes the last Handle call handed to the destination writer
  calls,      \* the replaceAttr calls made by the last operation, in order
  last,       \* the last operation: its name, receiver, arguments and result
  printer,    \* the package's leveled printing: printLevel, color.NoColor, what
              \* outWriter and errWriter were given, and the print calls made
  bufs,       \* the buffers made by bufPool: length, capacity, the text in
              \* them, and whether a caller or the pool holds them
  inflight    \* the Handle and WithAttrs calls running concurrently, each
              \* with its position, its buffer and what it has rendered

vars == <<handlers, heap, hist, out, calls, last, printer, bufs, inflight>>

\* the buffers and their users
poolVars == <<bufs, inflight>>

\* what the handler's operations, taken one at a time, leave alone
others == <<printer, poolVars>>

----------------------------------------------------------------------------
(* Characters and text                                                     *)

SP  == " "
NL  == "NL"
TAB == "TAB"
NUL == "NUL"
ESC == "ESC"
QT  == "\""
BS  == "\\"

Upper == <<"A","B","C","D","E","F","G","H","I","J","K","L","M",
           "N","O","P","Q","R","S","T","U","V","W","X","Y","Z">>
Lower == <<"a","b","c","d","e","f","g","h","i","j","k","l","m",
           "n","o","p","q","r","s","t","u","v","w","x","y","z">>
Digits == <<"0","1","2","3","4","5","6","7","8","9">>

Letter == 1..26

\* strings.ToLower / strings.ToUpper, character by character
LowerChar(c) == IF \E i \in Letter : Upper[i] = c
                THEN Lower[CHOOSE i \in Letter : Upper[i] = c] ELSE c
UpperChar(c) == IF \E i \in Letter : Lower[i] = c
                THEN Upper[CHOOSE i \in Letter : Lower[i] = c] ELSE c
ToLower(s) == [i \in DOMAIN s |-> LowerChar(s[i])]
ToUpper(s) == [i \in DOMAIN s |-> UpperChar(s[i])]

RECURSIVE Concat(_)
Concat(ss) == IF ss = <<>> THEN <<>> ELSE Head(ss) \o Concat(Tail(ss))

\* strings.TrimRight(s, " ")
RECURSIVE TrimRight(_)
TrimRight(s) ==
  IF s # <<>> /\ s[Len(s)] = SP THEN TrimRight(SubSeq(s, 1, Len(s) - 1)) ELSE s

\* unicode.IsSpace and unicode.IsPrint on the model's characters
IsSpace(c) == c \in {SP, TAB, NL}
IsPrint(c) == c \notin {TAB, NL, NUL, ESC}

\* strconv.Itoa / strconv.AppendInt(nil, n, 10)
RECURSIVE Utoa(_)
Utoa(n) == IF n < 10 THEN <<Digits[n + 1]>>
           ELSE Utoa(n \div 10) \o <<Digits[(n % 10) + 1]>>
Itoa(n) == IF n < 0 THEN <<"-">> \o Utoa(-n) ELSE Utoa(n)

\* strconv.Quote: one character escaped
EscapeChar(c) ==
  CASE c = QT  -> <<BS, QT>>
    [] c = BS  -> <<BS, BS>>
    [] c = NL  -> <<BS, "n">>
    [] c = TAB -> <<BS, "t">>
    [] c = NUL -> <<BS, "x", "0", "0">>
    [] c = ESC -> <<BS, "x", "1", "b">>
    [] OTHER   -> <<c>>

RECURSIVE EscapeAll(_)
EscapeAll(s) == IF s = <<>> THEN <<>> ELSE EscapeChar(Head(s)) \o EscapeAll(Tail(s))

\* strconv.AppendQuote(nil, s)
Quote(s) == <<QT>> \o EscapeAll(s) \o <<QT>>

needsQuotes(s) ==
  \/ Len(s) = 0
  \/ \E i \in DOMAIN s : s[i] \in {SP, QT, "=", TAB, NL} \/ ~IsPrint(s[i])

appendString(buf, s) == buf \o s
appendQuote(buf, s) == buf \o Quote(s)
appendAutoQuote(buf, s) ==
  IF needsQuotes(s) THEN appendQuote(buf, s) ELSE appendString(buf, s)

\* ANSI sequences
cliReset    == <<ESC, "[", "0", "m">>
cliFaint    == <<ESC, "[", "2", "m">>
cliFgRed    == <<ESC, "[", "3", "1", "m">>
cliFgYellow == <<ESC, "[", "3", "3", "m">>
cliFgBlue   == <<ESC, "[", "3", "4", "m">>

----------------------------------------------------------------------------
(* Go slices of strings: the groups field                                  *)

NilSlice == [arr |-> 0, len |-> 0, cap |-> 0]

\* the elements a slice header sees
View(hp, s) == IF s.arr = 0 THEN <<>> ELSE SubSeq(hp[s.arr], 1, s.len)

\* capacity chosen by append when the backing array is full (Go's growslice
\* for 16-byte elements below 256 elements: double, or the needed length)
GrowCap(oldcap, need) == IF need > 2 * oldcap THEN need ELSE 2 * oldcap

\* append(s, x): writes in place when len < cap, else copies to a new array
AppendSlice(hp, s, x) ==
  IF s.len < s.cap
  THEN [heap |-> [hp EXCEPT ![s.arr][s.len + 1] = x],
        s    |-> [s EXCEPT !.len = s.len + 1]]
  ELSE LET nc  == GrowCap(s.cap, s.len + 1)
           arr == [i \in 1..nc |-> IF i <= s.len THEN hp[s.arr][i]
                                   ELSE IF i = s.len + 1 THEN x ELSE <<>>]
       IN [heap |-> Append(hp, arr),
           s    |-> [arr |-> Len(hp) + 1, len |-> s.len + 1, cap |-> nc]]

----------------------------------------------------------------------------
(* slog values, attributes and records                                     *)

LevelDebug == -4
LevelInfo  == 0
LevelWarn  == 4
LevelError == 8

TimeKey    == <<"t","i","m","e">>
LevelKey   == <<"l","e","v","e","l">>
SourceKey  == <<"s","o","u","r","c","e">>
MessageKey == <<"m","s","g">>

V(kind, v) == [kind |-> kind, v |-> v]
A(key, val) == [key |-> key, val |-> val]

\* slog.Int, slog.String, slog.Group, slog.Any(k, nil), slog.Any(k, err),
\* slog.Any(k, aLogValuer), slog.Any(k, []byte(s))
slogInt(k, n)     == A(k, V("int", n))
slogString(k, s)  == A(k, V("str", s))
slogGroup(k, as)  == A(k, V("group", as))
slogAnyNil(k)     == A(k, V("nil", 0))
slogAnyErr(k, s)  == A(k, V("err", s))
slogAnyValuer(k, v) == A(k, V("valuer", v))
slogAnyBytes(k, s) == A(k, V("bytes", s))

\* slog.Attr{}: the zero attribute
ZeroAttr == slogAnyNil(<<>>)

\* Value.Resolve: call LogValue until the value is no LogValuer
RECURSIVE Resolve(_)
Resolve(v) == IF v.kind = "valuer" THEN Resolve(v.v) ELSE v

\* slog.Level.String
LevelDelta(base, d) ==
  IF d = 0 THEN base
  ELSE base \o (IF d > 0 THEN <<"+">> \o Utoa(d) ELSE <<"-">> \o Utoa(-d))
LevelString(l) ==
  IF l < LevelInfo THEN LevelDelta(<<"D","E","B","U","G">>, l - LevelDebug)
  ELSE IF l < LevelWarn THEN LevelDelta(<<"I","N","F","O">>, l - LevelInfo)
  ELSE IF l < LevelError THEN LevelDelta(<<"W","A","R","N">>, l - LevelWarn)
  ELSE LevelDelta(<<"E","R","R","O","R">>, l - LevelError)

\* time.Time.Format(h.timeFormat): a time is its minute of the day (0 is the
\* zero time), the layout is "15:04"
Pad2(n) == <<Digits[(n \div 10) + 1], Digits[(n % 10) + 1]>>
FormatTime(t) == Pad2(t \div 60) \o <<":">> \o Pad2(t % 60)
\* time.Time.String: the default form, longer than the layout's
TimeString(t) == FormatTime(t) \o <<":","0","0",SP,"U","T","C">>

\* runtime.CallersFrames([]uintptr{pc}).Next(): pc 0 has no frame
Frame(pc) ==
  IF pc = 0 THEN [File |-> <<>>, Line |-> 0]
  ELSE [File |-> << <<"p">>, <<"d">>, <<"f",".","g","o">> >>, Line |-> 7]

\* Value.String: the text of a value of any kind
\* a Value.String that quotes a string as appendValue does
ValueStringQuoted(v) ==
  CASE v.kind = "str"    -> Quote(v.v)
    [] v.kind = "int"    -> Itoa(v.v)
    [] v.kind = "err"    -> v.v
    [] OTHER             -> <<"?">>

ValueString(v) ==
  CASE v.kind = "str"    -> v.v
    [] v.kind = "int"    -> Itoa(v.v)
    [] v.kind = "bool"   -> IF v.v THEN <<"t","r","u","e">> ELSE <<"f","a","l","s","e">>
    [] v.kind = "time"   -> TimeString(v.v)
    [] v.kind = "level"  -> LevelString(v.v)
    [] v.kind = "err"    -> v.v
    [] v.kind = "nil"    -> <<"<","n","i","l",">">>
    [] OTHER             -> <<"?">>

\* the rewrite functions the tests pass as HandlerOptions.ReplaceAttr
ApplyRep(rep, groups, attr) ==
  CASE rep = "removeAll"     -> ZeroAttr
    [] rep = "removeBuiltin" ->
         IF attr.key \in {TimeKey, LevelKey, MessageKey} THEN ZeroAttr ELSE attr
    [] rep = "upperCaseKey"  -> [attr EXCEPT !.key = ToUpper(attr.key)]
    [] OTHER                 -> attr

----------------------------------------------------------------------------
(* Rendering: the append* methods of Handler.  A render state st is        *)
(* [buf, heap, calls, panic]: the buffer, the heap (append may write       *)
(* into a shared backing array), the replaceAttr calls made so far and     *)
(* whether a runtime panic has been raised.                                *)

\* an appendANSI that writes the colour whatever the handler's flag
appendANSIAlways(buf, h, color) == buf \o color

appendANSI(buf, h, color) == IF ~h.noColor THEN buf \o color ELSE buf

\* the level written as its slog name, with no padding and no colour
appendLevelName(buf, h, level) == buf \o LevelString(level)

appendLevel(buf, h, level) ==
  CASE level = LevelDebug ->
         appendANSI(appendANSI(buf, h, cliFgBlue) \o <<"D","E","B","U","G">>, h, cliReset)
    [] level = LevelInfo ->
         buf \o <<SP,"I","N","F","O">>
    [] level = LevelWarn ->
         appendANSI(appendANSI(buf, h, cliFgYellow) \o <<SP,"W","A","R","N">>, h, cliReset)
    [] level = LevelError ->
         appendANSI(appendANSI(buf, h, cliFgRed) \o <<"E","R","R","O","R">>, h, cliReset)
    [] OTHER -> buf \o LevelString(level)

\* filepath.Join(filepath.Base(dir), file) ":" line
appendSource(buf, h, src) ==
  LET n    == Len(src.File)
      base == IF n >= 2 THEN src.File[n - 1] \o <<"/">> ELSE <<>>
  IN appendANSI(appendANSI(buf, h, cliFaint) \o base \o src.File[n]
                  \o <<":">> \o Itoa(src.Line), h, cliReset)

appendKey(buf, h, key, groups) ==
  LET b1 == appendANSI(buf, h, cliFaint)
      b2 == IF Len(key) = 0 THEN b1 \o <<QT, QT>> ELSE appendAutoQuote(b1, groups \o key)
  IN appendANSI(b2 \o <<"=">>, h, cliReset)

appendError(buf, h, err, attrKey, groupsPrefix) ==
  LET b1 == appendANSI(appendANSI(buf, h, cliFaint), h, cliFgRed)
      b2 == appendAutoQuote(b1, groupsPrefix \o attrKey) \o <<"=">>
  IN appendQuote(appendANSI(b2, h, cliReset), err)

\* appendValue: [b |-> the buffer after, p |-> whether it panicked]
appendValue(buf, h, v) ==
  CASE v.kind = "str"    -> [b |-> appendQuote(buf, v.v), p |-> FALSE]
    [] v.kind = "int"    -> [b |-> buf \o Itoa(v.v), p |-> FALSE]
    [] v.kind = "bool"   -> [b |-> buf \o ValueString(v), p |-> FALSE]
    [] v.kind = "time"   -> [b |-> appendQuote(buf, TimeString(v.v)), p |-> FALSE]
    [] v.kind = "level"  -> [b |-> appendLevel(buf, h, v.v), p |-> FALSE]
    [] v.kind = "source" -> [b |-> appendSource(buf, h, v.v), p |-> FALSE]
    [] v.kind = "err"    -> [b |-> buf \o <<QT>> \o v.v \o <<QT>>, p |-> FALSE]
    [] v.kind = "bytes"  -> [b |-> appendAutoQuote(buf, v.v), p |-> FALSE]
    [] v.kind = "nil"    -> [b |-> buf, p |-> TRUE]  \* v.Any().(string) on nil
    [] OTHER             -> [b |-> buf, p |-> FALSE]

\* an appendAttr that drops nothing
isEmptyAttrNever(attr) == FALSE

\* attr.Equal(slog.Any("", nil)): the attribute that is dropped
isEmptyAttr(attr) == attr.key = <<>> /\ attr.val.kind = "nil"

\* the prefix of a nested group replaced by the group's key, not extended
extendPrefixReplace(groupsPrefix, key) == key \o <<".">>

\* groupsPrefix += attr.Key + "."
extendPrefix(groupsPrefix, key) == groupsPrefix \o key \o <<".">>

RECURSIVE appendAttr(_, _, _, _, _)
RECURSIVE appendAttrs(_, _, _, _, _)

appendAttr(st, h, attr0, groupsPrefix, groups) ==
  IF st.panic THEN st ELSE
  LET callRep == h.replaceAttr # "nil" /\ attr0.val.kind # "group"
      arg     == A(attr0.key, Resolve(attr0.val))
      a1      == IF callRep THEN ApplyRep(h.replaceAttr, View(st.heap, groups), arg)
                 ELSE attr0
      st1     == IF callRep
                 THEN [st EXCEPT !.calls = Append(@, [groups |-> View(st.heap, groups),
                                                       key    |-> arg.key,
                                                       kind   |-> arg.val.kind])]
                 ELSE st
      attr    == A(a1.key, Resolve(a1.val))
      key     == ToLower(attr.key)
      kind    == attr.val.kind
  IN
  IF isEmptyAttr(attr) THEN st1
  ELSE IF kind = "group" THEN
    LET ap == IF attr.key # <<>> THEN AppendSlice(st1.heap, groups, attr.key)
              ELSE [heap |-> st1.heap, s |-> groups]
        px == IF attr.key # <<>> THEN extendPrefix(groupsPrefix, attr.key)
              ELSE groupsPrefix
    IN appendAttrs([st1 EXCEPT !.heap = ap.heap], h, attr.val.v, px, ap.s)
  ELSE IF key = TimeKey THEN
    IF kind # "time" THEN [st1 EXCEPT !.panic = TRUE]
    ELSE [st1 EXCEPT !.buf = @ \o FormatTime(attr.val.v) \o <<SP>>]
  ELSE IF key = LevelKey THEN
    IF kind # "level" THEN [st1 EXCEPT !.panic = TRUE]
    ELSE [st1 EXCEPT !.buf = appendLevel(@, h, attr.val.v) \o <<SP>>]
  ELSE IF key = SourceKey THEN
    IF kind # "source" THEN [st1 EXCEPT !.panic = TRUE]
    ELSE [st1 EXCEPT !.buf = appendSource(@, h, attr.val.v) \o <<SP>>]
  ELSE IF key = MessageKey THEN
    [st1 EXCEPT !.buf = @ \o ValueString(attr.val) \o <<SP>>]
  ELSE IF kind = "err" THEN
    [st1 EXCEPT !.buf = appendError(@, h, attr.val.v, attr.key, groupsPrefix) \o <<SP>>]
  ELSE
    LET r == appendValue(appendKey(st1.buf, h, attr.key, groupsPrefix), h, attr.val)
    IN IF r.p THEN [st1 EXCEPT !.panic = TRUE]
       ELSE [st1 EXCEPT !.buf = r.b \o <<SP>>]

\* the loops "for _, a := range attrs { h.appendAttr(buf, a, prefix, groups) }"
appendAttrs(st, h, attrs, groupsPrefix, groups) ==
  IF attrs = <<>> THEN st
  ELSE appendAttrs(appendAttr(st, h, Head(attrs), groupsPrefix, groups),
                   h, Tail(attrs), groupsPrefix, groups)

----------------------------------------------------------------------------
(* The handler: construction, derivation and Handle                        *)

\* HandlerOptions values the handler is constructed with
Opt(rep, noColor, addSource, hasLevel, lvl) ==
  [ReplaceAttr |-> rep, NoColor |-> noColor, AddSource |-> addSource,
   HasLevel |-> hasLevel, Level |-> lvl]

Configs == <<
  Opt("nil",           TRUE,  FALSE, FALSE, 0),
  Opt("nil",           FALSE, TRUE,  TRUE,  LevelDebug),
  Opt("removeAll",     TRUE,  FALSE, FALSE, 0),
  Opt("removeBuiltin", TRUE,  TRUE,  FALSE, 0),
  Opt("ident",         TRUE,  FALSE, FALSE, 0),
  Opt("upperCaseKey",  FALSE, FALSE, TRUE,  LevelWarn) >>

defaultLevel == LevelInfo

NewHandler(opts) ==
  [attrsPrefix |-> <<>>,
   groupPrefix |-> <<>>,
   groups      |-> NilSlice,
   addSource   |-> opts.AddSource,
   level       |-> IF opts.HasLevel THEN opts.Level ELSE defaultLevel,
   replaceAttr |-> opts.ReplaceAttr,
   noColor     |-> opts.NoColor]

\* clone: a new Handler with every field copied; groups is copied as a
\* slice header, so the clone shares the parent's backing array
clone(h) ==
  [attrsPrefix |-> h.attrsPrefix,
   groupPrefix |-> h.groupPrefix,
   groups      |-> h.groups,
   addSource   |-> h.addSource,
   level       |-> h.level,
   replaceAttr |-> h.replaceAttr,
   noColor     |-> h.noColor]

\* an Enabled that lets only the levels above the minimum through
EnabledAbove(h, level) == level > h.level

\* an Enabled that lets every level through
EnabledAlways(h, level) == TRUE

\* Enabled: level >= h.level.Level()
Enabled(h, level) == level >= h.level

\* slog.Record
Rec(time, level, msg, pc, attrs) ==
  [Time |-> time, Level |-> level, Message |-> msg, PC |-> pc, Attrs |-> attrs]

St0(hp) == [buf |-> <<>>, heap |-> hp, calls |-> <<>>, panic |-> FALSE]

\* the parts of Handle, each taking the render state to the next one
HandleTime(st, h, r) ==
  IF r.Time # 0
  THEN IF h.replaceAttr = "nil"
       THEN [st EXCEPT !.buf = @ \o FormatTime(r.Time) \o <<SP>>]
       ELSE appendAttr(st, h, A(TimeKey, V("time", r.Time)), h.groupPrefix, NilSlice)
  ELSE st

\* the level written with no space after it
HandleLevelNoSpace(st, h, r) ==
  IF h.replaceAttr = "nil"
  THEN [st EXCEPT !.buf = appendLevel(@, h, r.Level)]
  ELSE appendAttr(st, h, A(LevelKey, V("level", r.Level)), h.groupPrefix, NilSlice)

HandleLevel(st, h, r) ==
  IF h.replaceAttr = "nil"
  THEN [st EXCEPT !.buf = appendLevel(@, h, r.Level) \o <<SP>>]
  ELSE appendAttr(st, h, A(LevelKey, V("level", r.Level)), h.groupPrefix, NilSlice)

HandleSource(st, h, r) ==
  IF h.addSource /\ Frame(r.PC).File # <<>>
  THEN IF h.replaceAttr = "nil"
       THEN [st EXCEPT !.buf = appendSource(@, h, Frame(r.PC)) \o <<SP>>]
       ELSE appendAttr(st, h, A(SourceKey, V("source", Frame(r.PC))), h.groupPrefix, NilSlice)
  ELSE st

\* the message written as it is, rewrite function or not
HandleMessageNoRep(st, h, r) ==
  [st EXCEPT !.buf = @ \o r.Message \o <<SP>>]

HandleMessage(st, h, r) ==
  IF h.replaceAttr = "nil"
  THEN [st EXCEPT !.buf = @ \o r.Message \o <<SP>>]
  ELSE appendAttr(st, h, A(MessageKey, V("str", r.Message)), h.groupPrefix, NilSlice)

\* a Handle that leaves the WithAttrs text out
HandlePrefixNone(st, h, r) == st

HandlePrefix(st, h, r) ==
  IF st.panic THEN st
  ELSE IF Len(h.attrsPrefix) > 0 THEN [st EXCEPT !.buf = @ \o h.attrsPrefix] ELSE st

HandleAttrs(st, h, r) ==
  IF Len(r.Attrs) > 0 THEN appendAttrs(st, h, r.Attrs, h.groupPrefix, h.groups) ELSE st

\* Handle with the pre-rendered text written after the record's attributes
HandleRenderPrefixLast(h, hp, r) ==
  HandlePrefix(HandleAttrs(HandleMessage(HandleSource(HandleLevel(HandleTime(
    St0(hp), h, r), h, r), h, r), h, r), h, r), h, r)

\* the body of Handle up to the write: the render state after the last append
HandleRender(h, hp, r) ==
  HandleAttrs(HandlePrefix(HandleMessage(HandleSource(HandleLevel(HandleTime(
    St0(hp), h, r), h, r), h, r), h, r), h, r), h, r)

\* h.logger.Println(s): fmt.Appendln adds the newline, Output adds one only
\* when the text does not end with one already
Println(s) ==
  LET ln == s \o <<NL>>
  IN IF ln[Len(ln)] # NL THEN ln \o <<NL>> ELSE ln

\* what Handle returns, given whether the destination's Write failed:
\* Println drops Output's error and Handle ends with "return nil"
HandleReturn(writeFailed) == "nil"

\* WithAttrs, for a non-empty list: the derived handler and the render state
WithAttrsRender(h, hp, attrs) ==
  LET h2 == clone(h)
  IN appendAttrs(St0(hp), h2, attrs, h2.groupPrefix, h2.groups)

\* WithAttrs that keeps only the text of its own attributes
WithAttrsOwnText(h, st) ==
  [parent |-> h,
   h      |-> [clone(h) EXCEPT !.attrsPrefix = st.buf]]

\* WithAttrs after the rendering: the receiver as the call leaves it and
\* the handler it returns
WithAttrsResult(h, st) ==
  [parent |-> h,
   h      |-> [clone(h) EXCEPT !.attrsPrefix = h.attrsPrefix \o st.buf]]

\* WithGroup that starts the key prefix again at its own name
WithGroupOwnPrefix(h, hp, name) ==
  LET h2 == clone(h)
      ap == AppendSlice(hp, h2.groups, name)
  IN [parent |-> h,
      h      |-> [h2 EXCEPT !.groupPrefix = name \o <<".">>, !.groups = ap.s],
      heap   |-> ap.heap]

\* WithGroup without the clone: the receiver itself gets the longer prefix
\* and is returned
WithGroupNoClone(h, hp, name) ==
  LET ap == AppendSlice(hp, h.groups, name)
      hm == [h EXCEPT !.groupPrefix = @ \o name \o <<".">>, !.groups = ap.s]
  IN [parent |-> hm, h |-> hm, heap |-> ap.heap]

\* WithGroup, for a non-empty name: the receiver as the call leaves it, the
\* handler it returns and the heap after
WithGroupResult(h, hp, name) ==
  LET h2 == clone(h)
      ap == AppendSlice(hp, h2.groups, name)
  IN [parent |-> h,
      h      |-> [h2 EXCEPT !.groupPrefix = @ \o name \o <<".">>, !.groups = ap.s],
      heap   |-> ap.heap]

----------------------------------------------------------------------------
(* Leveled printing (src/unnamed/part_000)                                 *)

\* the print levels: const ( LevelDebug = iota; LevelInfo; ... )
PrintDebug == 0
PrintInfo  == 1
PrintWarn  == 2
PrintError == 3
PrintFatal == 4

\* the sequences of color.FgHiBlue, FgHiYellow and FgHiRed
HiBlue   == <<ESC, "[", "9", "4", "m">>
HiYellow == <<ESC, "[", "9", "3", "m">>
HiRed    == <<ESC, "[", "9", "1", "m">>

\* color.New(c).SprintfFunc(): the text in the colour, closed by a reset,
\* or the text alone when color.NoColor is set
Colorize(c, s, noColor) == IF noColor THEN s ELSE c \o s \o cliReset

SprintfBlue(s, noColor)   == Colorize(HiBlue, s, noColor)
SprintfYellow(s, noColor) == Colorize(HiYellow, s, noColor)
SprintfRed(s, noColor)    == Colorize(HiRed, s, noColor)

\* fmt.Sprintln of one string
Sprintln(s) == s \o <<NL>>

\* a printMessage that prints only the levels above printLevel
printMessageAbove(pr, level, writer, message) ==
  IF level <= pr.printLevel THEN pr
  ELSE [pr EXCEPT ![writer] = Append(@, message)]

\* printMessage: nothing below printLevel, else one Fprint to the writer
printMessage(pr, level, writer, message) ==
  IF level < pr.printLevel THEN pr
  ELSE [pr EXCEPT ![writer] = Append(@, message)]

----------------------------------------------------------------------------
(* The buffer pool (src/buffer.go).  A buffer is [len, cap, data, in, got]: *)
(* its length and capacity as a byte slice, the text rendered into it (of   *)
(* the bytes of a plain Write only the number is kept), who holds it       *)
(* ("held" by a caller, "pool", or "gone" when it was dropped), and the    *)
(* length it had when it was last acquired.                                *)

\* make([]byte, 0, 1024) of bufPool.New
bufCap0 == 1024

\* const maxBufferSize = 16 << 10
maxBufferSize == 16384

\* the capacity append gives a byte slice of capacity old that has to hold
\* need bytes (runtime growslice, before rounding to a size class)
RECURSIVE GrowTo(_, _)
GrowTo(c, need) == IF c >= need THEN c ELSE GrowTo(c + (c + 768) \div 4, need)

GrowBytes(old, need) ==
  IF need <= old THEN old
  ELSE IF need > 2 * old THEN need
  ELSE IF old < 256 THEN 2 * old
  ELSE GrowTo(old, need)

\* bufPool.New
NewBuf == [len |-> 0, cap |-> bufCap0, data |-> <<>>, in |-> "held", got |-> 0]

\* *b = append(*b, p...) for n bytes whose text is not kept
WriteBytes(b, n) == [b EXCEPT !.len = @ + n, !.cap = GrowBytes(@, b.len + n)]

\* *b = append(*b, s...) for the text s
WriteText(b, s) ==
  [b EXCEPT !.len = @ + Len(s), !.cap = GrowBytes(@, b.len + Len(s)), !.data = @ \o s]

\* a Free that puts the buffer back as it is
FreeAsIs(b) == [b EXCEPT !.in = "pool"]

\* Free: a buffer of at most maxBufferSize is emptied and put back, a
\* larger one is left to the garbage collector
Free(b) ==
  IF b.cap <= maxBufferSize
  THEN [b EXCEPT !.len = 0, !.data = <<>>, !.in = "pool"]
  ELSE [b EXCEPT !.in = "gone"]

\* var bb [20]byte
bbLen == 20

\* the loop and the last digit of WritePosIntWidth: acc is bb[bp+1:], so
\* bp = bbLen - 1 - Len(acc), and bb[bp] with bp < 0 is an index out of
\* range
RECURSIVE PosIntDigits(_, _, _)
PosIntDigits(i, width, acc) ==
  IF Len(acc) >= bbLen THEN [digits |-> acc, panic |-> TRUE]
  ELSE IF i >= 10 \/ width > 1
  THEN PosIntDigits(i \div 10, width - 1, <<Digits[(i - (i \div 10) * 10) + 1]>> \o acc)
  ELSE [digits |-> <<Digits[i + 1]>> \o acc, panic |-> FALSE]

\* WritePosIntWidth: [b |-> the buffer after, panic |-> whether it panicked]
WritePosIntWidth(b, i, width) ==
  IF i < 0 THEN [b |-> b, panic |-> TRUE]
  ELSE LET r == PosIntDigits(i, width, <<>>)
       IN IF r.panic THEN [b |-> b, panic |-> TRUE]
          ELSE [b |-> WriteText(b, r.digits), panic |-> FALSE]

----------------------------------------------------------------------------
(* Inputs                                                                  *)

ka == <<"a">>
kb == <<"b">>
kc == <<"c">>
kd == <<"d">>
ke == <<"e">>
kg == <<"g">>
kh == <<"h">>
hi == <<"h","i">>
two == <<"t","w","o">>

\* group names passed to WithGroup; the first is the empty name
Names == << <<>>, <<"s">>, <<"t">> >>

\* attribute lists passed to WithAttrs; the first is the empty list
AttrLists == <<
  <<>>,
  << slogInt(<<"p">>, 0) >>,
  << slogString(ka, two), slogAnyNil(<<>>), slogGroup(kg, << slogInt(kb, 2) >>) >>,
  << slogGroup(kg, << slogInt(kb, 2) >>) >>,
  << slogString(MessageKey, two), slogInt(kb, 2) >> >>

\* a time of day that is not the zero time: 03:04
T1 == 184

\* records passed to Handle
Records == <<
  Rec(0,  LevelInfo,  hi, 0, <<>>),
  Rec(T1, LevelInfo,  hi, 1, << slogInt(ka, 1), slogString(kb, two) >>),
  Rec(0,  LevelDebug, hi \o <<SP>>, 1,
      << slogInt(ka, 1), slogAnyNil(<<>>), slogInt(kb, 2) >>),
  Rec(0,  LevelWarn,  <<>>, 0,
      << slogInt(ka, 1),
         slogGroup(kg, << slogInt(kb, 2),
                          slogGroup(kh, << slogInt(kc, 3) >>),
                          slogInt(kd, 4) >>),
         slogInt(ke, 5) >>),
  Rec(T1, LevelError, hi, 0,
      << slogGroup(<<>>, << slogInt(kb, 2), slogInt(kc, 3) >>),
         slogGroup(kg, <<>>),
         slogGroup(kh, << slogAnyNil(<<>>) >>),
         slogAnyValuer(<<"n">>, V("group", << slogString(<<"f">>, hi) >>)) >>),
  Rec(0,  LevelInfo + 2, hi \o <<SP, NL>>, 0, <<>>),
  Rec(0,  LevelInfo,  hi, 0,
      << slogGroup(kg, << slogString(MessageKey, <<"x">>), slogInt(<<>>, 1) >>) >>),
  Rec(0,  LevelInfo,  hi, 0,
      << slogString(<<"a", SP, "b">>, <<"x", TAB, QT>>), slogAnyErr(<<"e","r","r">>, <<"f">>) >>),
  Rec(0,  LevelInfo,  hi, 0, << slogGroup(kg, << slogInt(kb, 2) >>) >>),
  Rec(0,  LevelInfo,  hi, 0, << slogAnyNil(ka) >>),
  Rec(0,  LevelInfo,  hi, 0, << slogInt(<<"T","i","m","e">>, 1) >>),
  Rec(0,  LevelInfo,  hi, 0,
      << slogGroup(kg, << slogInt(<<>>, 1), slogAnyErr(<<>>, <<"f">>) >>) >>),
  Rec(0,  LevelInfo,  hi, 0, << slogAnyBytes(kb, <<"a","b","c">>) >>),
  Rec(0,  LevelInfo,  hi, 0, << slogAnyBytes(kb, <<"a", NUL>>), slogInt(ka, 1) >>),
  Rec(0,  LevelInfo,  hi, 0,
      << slogString(<<"M","S","G">>, <<"x", SP, "y">>), slogInt(ka, 1) >>),
  Rec(0,  LevelWarn,  hi, 0,
      << slogInt(<<"M","s","g">>, 7),
         slogGroup(kg, << slogAnyErr(MessageKey, <<"f">>) >>) >>) >>

----------------------------------------------------------------------------
(* State machine                                                           *)

MaxHandlers == 3

\* the history of a constructed handler: no parent, no group, no text
H0(opts) == [parent |-> 0, op |-> "NewHandler", arg |-> 0, names |-> <<>>, pre |-> <<>>]

\* the package variables of the leveled printing as the program starts:
\* printLevel = LevelInfo, nothing written, color.NoColor as the terminal
\* has it; n counts the print calls made, fn and msg are the last of them
Printer0(noColor) ==
  [printLevel |-> PrintInfo, NoColor |-> noColor,
   outWriter |-> <<>>, errWriter |-> <<>>, n |-> 0, fn |-> "", msg |-> 0]

InitHandlers(cs) ==
  \E c \in cs :
    /\ handlers = << NewHandler(Configs[c]) >>
    /\ heap = <<>>
    /\ hist = << H0(Configs[c]) >>
    /\ out = <<>>
    /\ calls = <<>>
    /\ last = [op |-> "NewHandler", h |-> 1, arg |-> c, fail |-> FALSE,
               ret |-> 1, err |-> "nil"]

\* no buffer made and no call running
InitPool == bufs = <<>> /\ inflight = <<>>

InitWith(cs) == InitHandlers(cs) /\ printer = Printer0(FALSE) /\ InitPool

\* the arrays of hp2 that existed in hp: what a call allocated for its own
\* use is garbage once it returns
Keep(hp, hp2) == SubSeq(hp2, 1, Len(hp))

\* h2 := handlers[i].WithGroup(Names[ni])
WithGroup(i, ni, max) ==
  /\ UNCHANGED others
  /\ \E res \in {WithGroupResult(handlers[i], heap, Names[ni])} :
     LET name == Names[ni]
     IN /\ out' = <<>>
        /\ calls' = <<>>
        /\ IF name = <<>>
           THEN /\ UNCHANGED <<handlers, heap, hist>>
                /\ last' = [op |-> "WithGroup", h |-> i, arg |-> ni, fail |-> FALSE,
                            ret |-> i, err |-> "nil"]
           ELSE /\ Len(handlers) < max
                /\ handlers' = Append([handlers EXCEPT ![i] = res.parent], res.h)
                /\ heap' = res.heap
                /\ hist' = Append(hist, [parent |-> i, op |-> "WithGroup", arg |-> ni,
                                         names  |-> Append(hist[i].names, name),
                                         pre    |-> hist[i].pre])
                /\ last' = [op |-> "WithGroup", h |-> i, arg |-> ni, fail |-> FALSE,
                            ret |-> Len(handlers) + 1, err |-> "nil"]

\* h2 := handlers[i].WithAttrs(AttrLists[ai])
WithAttrs(i, ai, max) ==
  /\ UNCHANGED others
  /\ \E st \in {WithAttrsRender(handlers[i], heap, AttrLists[ai])} :
     LET h     == handlers[i]
         attrs == AttrLists[ai]
     IN /\ out' = <<>>
        /\ IF Len(attrs) = 0
           THEN /\ UNCHANGED <<handlers, heap, hist>>
                /\ calls' = <<>>
                /\ last' = [op |-> "WithAttrs", h |-> i, arg |-> ai, fail |-> FALSE,
                            ret |-> i, err |-> "nil"]
           ELSE /\ Len(handlers) < max
                /\ heap' = Keep(heap, st.heap)
                /\ calls' = st.calls
                /\ IF st.panic
                   THEN /\ UNCHANGED <<handlers, hist>>
                        /\ last' = [op |-> "WithAttrs", h |-> i, arg |-> ai, fail |-> FALSE,
                                    ret |-> 0, err |-> "panic"]
                   ELSE /\ handlers' = Append([handlers EXCEPT ![i] = WithAttrsResult(h, st).parent],
                                            WithAttrsResult(h, st).h)
                        /\ hist' = Append(hist, [parent |-> i, op |-> "WithAttrs", arg |-> ai,
                                                 names  |-> hist[i].names,
                                                 pre    |-> Append(hist[i].pre, st.buf)])
                        /\ last' = [op |-> "WithAttrs", h |-> i, arg |-> ai, fail |-> FALSE,
                                    ret |-> Len(handlers) + 1, err |-> "nil"]

\* err := handlers[i].Handle(ctx, Records[ri]); fail says whether the
\* destination's Write returns an error
Handle(i, ri, fail) ==
  /\ UNCHANGED others
  /\ \E st \in {HandleRender(handlers[i], heap, Records[ri])} :
        /\ heap' = Keep(heap, st.heap)
        /\ calls' = st.calls
        /\ UNCHANGED <<handlers, hist>>
        /\ IF st.panic
           THEN /\ out' = <<>>
                /\ last' = [op |-> "Handle", h |-> i, arg |-> ri, fail |-> fail,
                            ret |-> 0, err |-> "panic"]
           ELSE /\ out' = Println(TrimRight(st.buf))
                /\ last' = [op |-> "Handle", h |-> i, arg |-> ri, fail |-> fail,
                            ret |-> 0, err |-> HandleReturn(fail)]

\* ok := handlers[i].Enabled(ctx, level)
EnabledCall(i, level) ==
  /\ UNCHANGED others
  /\ /\ UNCHANGED <<handlers, heap, hist>>
     /\ out' = <<>>
     /\ calls' = <<>>
     /\ last' = [op |-> "Enabled", h |-> i, arg |-> level, fail |-> FALSE,
                 ret |-> IF Enabled(handlers[i], level) THEN 1 ELSE 0, err |-> "nil"]

\* handlers[i].SetLogLoggerLevel(level)
SetLogLoggerLevel(i, level) ==
  /\ UNCHANGED others
  /\ /\ handlers' = [handlers EXCEPT ![i].level = level]
     /\ UNCHANGED <<heap, hist>>
     /\ out' = <<>>
     /\ calls' = <<>>
     /\ last' = [op |-> "SetLogLoggerLevel", h |-> i, arg |-> level, fail |-> FALSE,
                 ret |-> 0, err |-> "nil"]

\* slog.New(handlers[i]).Log(ctx, r.Level, r.Message, r.Attrs...): the
\* logger asks the handler's Enabled and calls its Handle only on true
Log(i, ri) ==
  /\ UNCHANGED others
  /\ IF Enabled(handlers[i], Records[ri].Level)
     THEN \E st \in {HandleRender(handlers[i], heap, Records[ri])} :
            /\ heap' = Keep(heap, st.heap)
            /\ calls' = st.calls
            /\ UNCHANGED <<handlers, hist>>
            /\ out' = IF st.panic THEN <<>> ELSE Println(TrimRight(st.buf))
            /\ last' = [op |-> "Log", h |-> i, arg |-> ri, fail |-> FALSE,
                        ret |-> 1, err |-> IF st.panic THEN "panic" ELSE "nil"]
     ELSE /\ UNCHANGED <<handlers, heap, hist>>
          /\ out' = <<>>
          /\ calls' = <<>>
          /\ last' = [op |-> "Log", h |-> i, arg |-> ri, fail |-> FALSE,
                      ret |-> 0, err |-> "nil"]

\* the destination's Write is made to fail only for the records of FailRecs
FailRecs == {1}
Fails(ri) == IF ri \in FailRecs THEN BOOLEAN ELSE {FALSE}

Init == InitWith(1..4)

Next ==
  \/ \E i \in DOMAIN handlers : \E ni \in {1, 2} : WithGroup(i, ni, MaxHandlers)
  \/ \E i \in DOMAIN handlers : \E ai \in {1, 2, 3} : WithAttrs(i, ai, MaxHandlers)
  \/ \E i \in DOMAIN handlers : \E ri \in 1..7 : \E fail \in Fails(ri) :
        Handle(i, ri, fail)

Spec == Init /\ [][Next]_vars

\* Deep derivation chains: handlers derived from handlers, with a rewrite
\* function that leaves every attribute as it is.  A new handler is derived
\* from the newest handler or from that handler's parent, which gives chains
\* of any depth and handlers derived from the same parent.
MaxChain == 6

Newest == {Len(handlers)} \cup ({hist[Len(handlers)].parent} \ {0})

InitChain == InitWith({5})

NextChain ==
  \/ \E i \in Newest : WithGroup(i, 2, MaxChain)
  \/ \E i \in Newest : WithAttrs(i, 4, MaxChain)
  \/ \E i \in DOMAIN handlers : Handle(i, 9, FALSE)

SpecChain == InitChain /\ [][NextChain]_vars

\* Keys and values of every shape: records whose attributes have keys that
\* need quoting, empty keys, nil values, byte slices, errors and values of
\* the wrong type under a built-in key, handled by handlers without a
\* rewrite function, derived with WithGroup or not.
MaxValueHandlers == 3

ValueRecs == {8, 10, 11, 12, 13, 14}

InitValues == InitWith({1, 2})

NextValues ==
  \/ \E i \in DOMAIN handlers : \E ni \in {2, 3} : WithGroup(i, ni, MaxValueHandlers)
  \/ \E i \in DOMAIN handlers : \E ri \in ValueRecs : Handle(i, ri, FALSE)

SpecValues == InitValues /\ [][NextValues]_vars

\* Levels: handlers made with no level, with Debug and with Warn, derived,
\* asked whether a level is enabled, given another level, and logged to
\* through a slog.Logger.
MaxLevelHandlers == 2

LevelSet == {LevelDebug - 4, LevelDebug, LevelInfo - 1, LevelInfo, LevelInfo + 1,
             LevelWarn, LevelError}

SetLevels == {LevelDebug, LevelInfo, LevelError}

LogRecs == {1, 3, 4, 6}

InitLevel == InitWith({1, 2, 6})

NextLevel ==
  \/ \E i \in DOMAIN handlers : WithGroup(i, 2, MaxLevelHandlers)
  \/ \E i \in DOMAIN handlers : WithAttrs(i, 2, MaxLevelHandlers)
  \/ \E i \in DOMAIN handlers : \E l \in LevelSet : EnabledCall(i, l)
  \/ \E i \in DOMAIN handlers : \E l \in SetLevels : SetLogLoggerLevel(i, l)
  \/ \E i \in DOMAIN handlers : \E ri \in LogRecs : Log(i, ri)

SpecLevel == InitLevel /\ [][NextLevel]_vars

\* Leveled printing: SetPrintLevel and the Debug, Info, Warn and Error
\* functions in their three forms, with SetColor called before them, as
\* the tests do, and the two writers two buffers.
MaxPrints == 2

PrintMsgs == << <<"m">>, <<"x", SP, "y">> >>

handlerVars == <<handlers, heap, hist, out, calls, last>>

\* SetPrintLevel(level)
SetPrintLevel(level) ==
  /\ printer' = [printer EXCEPT !.printLevel = level]
  /\ UNCHANGED <<handlerVars, poolVars>>

\* a call of one of the print functions: printMessage(level, writer, message)
PrintCall(fn, mi, level, writer, message) ==
  /\ printer.n < MaxPrints
  /\ printer' = [printMessage(printer, level, writer, message)
                   EXCEPT !.n = @ + 1, !.fn = fn, !.msg = mi]
  /\ UNCHANGED <<handlerVars, poolVars>>

\* Debug(format): the formatted text in its colour, and a newline
Debug(mi) ==
  PrintCall("Debug", mi, PrintDebug, "outWriter", Sprintln(SprintfBlue(PrintMsgs[mi], printer.NoColor)))

\* Debugf(format): the formatted text in its colour
Debugf(mi) ==
  PrintCall("Debugf", mi, PrintDebug, "outWriter", SprintfBlue(PrintMsgs[mi], printer.NoColor))

\* Debugln(a): the text and a newline, in its colour
Debugln(mi) ==
  PrintCall("Debugln", mi, PrintDebug, "outWriter", SprintfBlue(Sprintln(PrintMsgs[mi]), printer.NoColor))

\* Info(format): the formatted text in its colour, and a newline
Info(mi) ==
  PrintCall("Info", mi, PrintInfo, "outWriter", Sprintln(PrintMsgs[mi]))

\* Infof(format): the formatted text in its colour
Infof(mi) ==
  PrintCall("Infof", mi, PrintInfo, "outWriter", PrintMsgs[mi])

\* Infoln(a): the text and a newline, in its colour
Infoln(mi) ==
  PrintCall("Infoln", mi, PrintInfo, "outWriter", Sprintln(PrintMsgs[mi]))

\* Warn(format): the formatted text in its colour, and a newline
Warn(mi) ==
  PrintCall("Warn", mi, PrintWarn, "outWriter", Sprintln(SprintfYellow(PrintMsgs[mi], printer.NoColor)))

\* Warnf(format): the formatted text in its colour
Warnf(mi) ==
  PrintCall("Warnf", mi, PrintWarn, "outWriter", SprintfYellow(PrintMsgs[mi], printer.NoColor))

\* Warnln(a): the text and a newline, in its colour
Warnln(mi) ==
  PrintCall("Warnln", mi, PrintWarn, "outWriter", SprintfYellow(Sprintln(PrintMsgs[mi]), printer.NoColor))

\* Error(format): the formatted text in its colour, and a newline
Error(mi) ==
  PrintCall("Error", mi, PrintError, "errWriter", Sprintln(SprintfRed(PrintMsgs[mi], printer.NoColor)))

\* Errorf(format): the formatted text in its colour
Errorf(mi) ==
  PrintCall("Errorf", mi, PrintError, "errWriter", SprintfRed(PrintMsgs[mi], printer.NoColor))

\* Errorln(a): the text and a newline, in its colour
Errorln(mi) ==
  PrintCall("Errorln", mi, PrintError, "errWriter", SprintfRed(Sprintln(PrintMsgs[mi]), printer.NoColor))

InitPrint ==
  InitHandlers({1}) /\ InitPool /\ \E nc \in BOOLEAN : printer = Printer0(nc)

NextPrint ==
  \/ \E level \in PrintDebug..PrintFatal : SetPrintLevel(level)
  \/ \E mi \in DOMAIN PrintMsgs : Debug(mi)
  \/ \E mi \in DOMAIN PrintMsgs : Debugf(mi)
  \/ \E mi \in DOMAIN PrintMsgs : Debugln(mi)
  \/ \E mi \in DOMAIN PrintMsgs : Info(mi)
  \/ \E mi \in DOMAIN PrintMsgs : Infof(mi)
  \/ \E mi \in DOMAIN PrintMsgs : Infoln(mi)
  \/ \E mi \in DOMAIN PrintMsgs : Warn(mi)
  \/ \E mi \in DOMAIN PrintMsgs : Warnf(mi)
  \/ \E mi \in DOMAIN PrintMsgs : Warnln(mi)
  \/ \E mi \in DOMAIN PrintMsgs : Error(mi)
  \/ \E mi \in DOMAIN PrintMsgs : Errorf(mi)
  \/ \E mi \in DOMAIN PrintMsgs : Errorln(mi)

SpecPrint == InitPrint /\ [][NextPrint]_vars

\* The message key: attributes whose key is msg in any case, with a string,
\* a number or an error as value, in a record, in a group and in a
\* WithAttrs list, on handlers with and without colour and rewrite
\* function, derived with WithGroup and WithAttrs or not.
MaxMsgHandlers == 3

MsgRecs == {7, 15, 16}

InitMsg == InitWith({1, 6})

NextMsg ==
  \/ \E i \in DOMAIN handlers : WithGroup(i, 2, MaxMsgHandlers)
  \/ \E i \in DOMAIN handlers : WithAttrs(i, 5, MaxMsgHandlers)
  \/ \E i \in DOMAIN handlers : \E ri \in MsgRecs : Handle(i, ri, FALSE)

SpecMsg == InitMsg /\ [][NextMsg]_vars

\* The buffer pool used directly: buffers acquired, written to, reset and
\* released, each by the caller that holds it.
MaxBufs == 2

MaxBytes == 20000

WriteSizes == {9000, 20000}

\* b := newBuffer(): bufPool.Get() gives a buffer of the pool, any of them,
\* or a new one
newBuffer ==
  /\ \/ \E k \in DOMAIN bufs :
          /\ bufs[k].in = "pool"
          /\ bufs' = [bufs EXCEPT ![k].in = "held", ![k].got = bufs[k].len]
     \/ /\ Len(bufs) < MaxBufs
        /\ bufs' = Append(bufs, NewBuf)
  /\ UNCHANGED <<handlerVars, printer, inflight>>

\* b.Write(p), b.WriteString(s), b.WriteByte(c) on a buffer the caller holds
Write(k, n) ==
  /\ bufs[k].in = "held"
  /\ bufs[k].len + n <= MaxBytes
  /\ bufs' = [bufs EXCEPT ![k] = WriteBytes(@, n)]
  /\ UNCHANGED <<handlerVars, printer, inflight>>

\* b.Reset() on a buffer the caller holds
Reset(k) ==
  /\ bufs[k].in = "held"
  /\ bufs' = [bufs EXCEPT ![k].len = 0, ![k].data = <<>>]
  /\ UNCHANGED <<handlerVars, printer, inflight>>

\* b.Free() on a buffer the caller holds
FreeCall(k) ==
  /\ bufs[k].in = "held"
  /\ bufs' = [bufs EXCEPT ![k] = Free(@)]
  /\ UNCHANGED <<handlerVars, printer, inflight>>

InitBuffers == InitWith({1})

NextBuffers ==
  \/ newBuffer
  \/ \E k \in DOMAIN bufs : \E n \in WriteSizes : Write(k, n)
  \/ \E k \in DOMAIN bufs : Reset(k)
  \/ \E k \in DOMAIN bufs : FreeCall(k)

SpecBuffers == InitBuffers /\ [][NextBuffers]_vars

\* Concurrent calls: Handle and WithAttrs calls on the handlers made so
\* far, each taking its steps (acquire, render in two parts, write or
\* store, release) interleaved with the steps of the others.
MaxCalls == 2

CallRecs == {1, 2, 10}

\* a newBuffer that gives out any buffer, held or not
AcquiredAny ==
  {[bufs |-> [bufs EXCEPT ![k].in = "held", ![k].got = bufs[k].len], k |-> k] :
     k \in DOMAIN bufs}
    \cup {[bufs |-> Append(bufs, NewBuf), k |-> Len(bufs) + 1]}

\* buf := newBuffer(): the buffers after the call and the one it returns,
\* a buffer of the pool or a new one
Acquired ==
  {[bufs |-> [bufs EXCEPT ![k].in = "held", ![k].got = bufs[k].len], k |-> k] :
     k \in {j \in DOMAIN bufs : bufs[j].in = "pool"}}
    \cup {[bufs |-> Append(bufs, NewBuf), k |-> Len(bufs) + 1]}

\* a call that has acquired buffer k and has the texts of parts to render
NewCall(op, i, arg, k, parts, panic) ==
  [op |-> op, h |-> i, arg |-> arg, buf |-> k, pc |-> "render", parts |-> parts,
   sofar |-> <<>>, panic |-> panic, wrote |-> <<>>, nw |-> 0, ret |-> 0]

\* buf := newBuffer(); defer buf.Free() of Handle: the call begins; what it
\* is going to render is the built-in fields, then the WithAttrs text and
\* the record's attributes
BeginHandle(i, ri) ==
  /\ Len(inflight) < MaxCalls
  /\ \E st \in {HandleRender(handlers[i], heap, Records[ri])} :
     \E aq \in Acquired :
       LET m == IF Len(st.buf) < Len(HandleMessage(HandleSource(HandleLevel(
                       HandleTime(St0(heap), handlers[i], Records[ri]),
                       handlers[i], Records[ri]), handlers[i], Records[ri]),
                       handlers[i], Records[ri]).buf)
                THEN Len(st.buf)
                ELSE Len(HandleMessage(HandleSource(HandleLevel(
                       HandleTime(St0(heap), handlers[i], Records[ri]),
                       handlers[i], Records[ri]), handlers[i], Records[ri]),
                       handlers[i], Records[ri]).buf)
       IN /\ bufs' = aq.bufs
          /\ inflight' = Append(inflight,
               NewCall("Handle", i, ri, aq.k,
                       << SubSeq(st.buf, 1, m), SubSeq(st.buf, m + 1, Len(st.buf)) >>,
                       st.panic))
          /\ heap' = Keep(heap, st.heap)
  /\ UNCHANGED <<handlers, hist, out, calls, last, printer>>

\* h2 := h.clone(); buf := newBuffer(); defer buf.Free() of WithAttrs
BeginWithAttrs(i, ai) ==
  /\ Len(inflight) < MaxCalls
  /\ Len(AttrLists[ai]) > 0
  /\ \E st \in {WithAttrsRender(handlers[i], heap, AttrLists[ai])} :
     \E aq \in Acquired :
       /\ bufs' = aq.bufs
       /\ inflight' = Append(inflight,
            NewCall("WithAttrs", i, ai, aq.k, << st.buf >>, st.panic))
       /\ heap' = Keep(heap, st.heap)
  /\ UNCHANGED <<handlers, hist, out, calls, last, printer>>

\* the call writes the next part of its text to its buffer; after the last
\* part it goes on to its result, or, when rendering panicked, straight to
\* the deferred Free
Render(c) ==
  /\ inflight[c].pc = "render"
  /\ LET part == Head(inflight[c].parts)
         rest == Tail(inflight[c].parts)
     IN /\ bufs' = [bufs EXCEPT ![inflight[c].buf] = WriteText(@, part)]
        /\ inflight' = [inflight EXCEPT
             ![c].parts = rest,
             ![c].sofar = @ \o part,
             ![c].pc    = IF rest # <<>> THEN "render"
                          ELSE IF inflight[c].panic THEN "free" ELSE "result"]
  /\ UNCHANGED <<handlerVars, printer>>

\* h.logger.Println(strings.TrimRight(buf.String(), " ")) of Handle
Emit(c) ==
  /\ inflight[c].pc = "result" /\ inflight[c].op = "Handle"
  /\ out' = Println(TrimRight(bufs[inflight[c].buf].data))
  /\ inflight' = [inflight EXCEPT ![c].wrote = out', ![c].nw = @ + 1, ![c].pc = "free"]
  /\ UNCHANGED <<handlers, heap, hist, calls, last, printer, bufs>>

\* h2.attrsPrefix = h.attrsPrefix + buf.String(); return h2 of WithAttrs
Store(c) ==
  /\ inflight[c].pc = "result" /\ inflight[c].op = "WithAttrs"
  /\ LET i   == inflight[c].h
         res == WithAttrsResult(handlers[i],
                                [St0(heap) EXCEPT !.buf = bufs[inflight[c].buf].data])
     IN /\ handlers' = Append([handlers EXCEPT ![i] = res.parent], res.h)
        /\ hist' = Append(hist, [parent |-> i, op |-> "WithAttrs",
                                 arg    |-> inflight[c].arg,
                                 names  |-> hist[i].names,
                                 pre    |-> Append(hist[i].pre, bufs[inflight[c].buf].data)])
  /\ inflight' = [inflight EXCEPT ![c].ret = Len(handlers) + 1, ![c].pc = "free"]
  /\ UNCHANGED <<heap, out, calls, last, printer, bufs>>

\* the deferred buf.Free() as the call returns
Release(c) ==
  /\ inflight[c].pc = "free"
  /\ bufs' = [bufs EXCEPT ![inflight[c].buf] = Free(@)]
  /\ inflight' = [inflight EXCEPT ![c].pc = "done"]
  /\ UNCHANGED <<handlerVars, printer>>

InitCalls == InitWith({1, 4})

NextCalls ==
  \/ \E i \in DOMAIN handlers : \E ri \in CallRecs : BeginHandle(i, ri)
  \/ \E i \in DOMAIN handlers : BeginWithAttrs(i, 2)
  \/ \E c \in DOMAIN inflight : Render(c)
  \/ \E c \in DOMAIN inflight : Emit(c)
  \/ \E c \in DOMAIN inflight : Store(c)
  \/ \E c \in DOMAIN inflight : Release(c)

SpecCalls == InitCalls /\ [][NextCalls]_vars

\* Numbers written to a buffer: a buffer just acquired, text and numbers
\* of every width written to it while it is short.
MaxPre == 5

PosInts == {-5, -1, 0, 7, 17, 1234}

Widths == {-2, -1, 0, 1, 2, 4, 19, 20, 21, 22}

Texts == << <<"h","e","l","l","o">>, <<",">> >>

\* b.WriteString(Texts[ti])
WriteString(k, ti) ==
  /\ bufs[k].in = "held"
  /\ bufs[k].len <= MaxPre
  /\ bufs' = [bufs EXCEPT ![k] = WriteText(@, Texts[ti])]
  /\ last' = [op |-> "WriteString", h |-> k, arg |-> ti, width |-> 0,
              pre |-> bufs[k].data, err |-> "nil"]
  /\ UNCHANGED <<handlers, heap, hist, out, calls, printer, inflight>>

\* b.WritePosIntWidth(i, width)
WritePosIntWidthCall(k, i, width) ==
  /\ bufs[k].in = "held"
  /\ bufs[k].len <= MaxPre
  /\ \E r \in {WritePosIntWidth(bufs[k], i, width)} :
       /\ bufs' = [bufs EXCEPT ![k] = r.b]
       /\ last' = [op |-> "WritePosIntWidth", h |-> k, arg |-> i, width |-> width,
                   pre |-> bufs[k].data, err |-> IF r.panic THEN "panic" ELSE "nil"]
  /\ UNCHANGED <<handlers, heap, hist, out, calls, printer, inflight>>

\* b := newBuffer() has been called once
InitPosInt ==
  /\ InitHandlers({1})
  /\ printer = Printer0(FALSE)
  /\ bufs = << NewBuf >>
  /\ inflight = <<>>

NextPosInt ==
  \/ \E k \in DOMAIN bufs : \E ti \in DOMAIN Texts : WriteString(k, ti)
  \/ \E k \in DOMAIN bufs : \E i \in PosInts : \E width \in Widths :
       WritePosIntWidthCall(k, i, width)

SpecPosInt == InitPosInt /\ [][NextPosInt]_vars

----------------------------------------------------------------------------
(* Properties                                                              *)

\* the line Handle would write for record r on handler h with heap hp
LineOf(h, hp, r) ==
  LET st == HandleRender(h, hp, r)
  IN IF st.panic THEN <<"panic">> ELSE Println(TrimRight(st.buf))

\* the last step was a Handle that wrote a line
Handled == last.op = "Handle" /\ last.err # "panic"
LastH == handlers[last.h]
LastR == Records[last.arg]

\* this step derives a new handler from handlers[last'.h]
Derives ==
  /\ last'.op \in {"WithGroup", "WithAttrs"}
  /\ last'.ret = Len(handlers) + 1
  /\ Len(handlers') = Len(handlers) + 1

\* the open groups of handler i, read through its slice
Groups(hs, hp, i) == View(hp, hs[i].groups)

\* C1: when the destination's Write fails, Handle returns an error
C1_WriteErrorReturned ==
  (Handled /\ last.fail) => last.err # "nil"

\* C2: deriving a handler with WithGroup or WithAttrs leaves the line the
\* parent writes for a record exactly as it was before the derivation
C2_Records == {2, 4, 5, 9}
C2_ParentLineUnchanged ==
  [][Derives =>
       \A ri \in C2_Records :
         LineOf(handlers'[last'.h], heap', Records[ri])
           = LineOf(handlers[last'.h], heap, Records[ri])]_vars

\* a WithGroup whose append wrote into the parent's own backing array
C2_Witness ==
  /\ last.op = "WithGroup"
  /\ last.ret = Len(handlers)
  /\ handlers[last.h].groups.len = 3
  /\ handlers[last.ret].groups.arr = handlers[last.h].groups.arr
  /\ LineOf(handlers[last.h], heap, Records[9])
       # LineOf(handlers[last.ret], heap, Records[9])

\* C3: a derivation leaves the pre-rendered text and the open groups of
\* every handler that exists as they were, and the new handler has those of
\* its own chain
C3_SiblingsIndependent ==
  [][Derives =>
       /\ \A i \in DOMAIN handlers :
            /\ handlers'[i].attrsPrefix = handlers[i].attrsPrefix
            /\ Groups(handlers', heap', i) = Groups(handlers, heap, i)
       /\ handlers'[last'.ret].attrsPrefix = Concat(hist'[last'.ret].pre)
       /\ Groups(handlers', heap', last'.ret) = hist'[last'.ret].names]_vars

\* C4: Handle leaves attrsPrefix, groupPrefix and the open groups of every
\* handler as they were
C4_HandleLeavesHandlers ==
  [][last'.op = "Handle" =>
       \A i \in DOMAIN handlers :
         /\ handlers'[i].attrsPrefix = handlers[i].attrsPrefix
         /\ handlers'[i].groupPrefix = handlers[i].groupPrefix
         /\ Groups(handlers', heap', i) = Groups(handlers, heap, i)]_vars

\* the text one part of Handle writes on its own
PartText(st) == st.buf

\* the tokens of a line in the order of the claim: time, level, source,
\* message, the WithAttrs texts in call order, the record's attributes
C5_Tokens(h, hp, r, pre) ==
  << IF r.Time # 0 THEN PartText(HandleTime(St0(hp), h, r)) ELSE <<>>,
     PartText(HandleLevel(St0(hp), h, r)),
     IF h.addSource /\ r.PC # 0 THEN PartText(HandleSource(St0(hp), h, r)) ELSE <<>>,
     PartText(HandleMessage(St0(hp), h, r)),
     Concat(pre) >>
  \o [k \in 1..Len(r.Attrs) |->
        PartText(appendAttr(St0(hp), h, r.Attrs[k], h.groupPrefix, h.groups))]

\* C5: a line is the time (if not zero), the level, the source (if enabled
\* and known), the message, the text of each WithAttrs call in call order
\* and the record's attributes in order, and nothing else
C5_TokenOrder ==
  Handled =>
    out = Println(TrimRight(Concat(C5_Tokens(LastH, heap, LastR, hist[last.h].pre))))

\* a line with a time, a source, two WithAttrs texts and record attributes
C5_Witness ==
  /\ Handled
  /\ last.arg = 2
  /\ LastH.addSource
  /\ LastH.replaceAttr = "nil"
  /\ Len(hist[last.h].pre) = 2
  /\ hist[last.h].pre[1] # hist[last.h].pre[2]

\* C6: a written line ends with exactly one newline, and the character
\* before that newline is not a space
C6_OneNewlineNoTrailingSpace ==
  Handled =>
    LET n == Len(out)
    IN /\ n >= 1
       /\ out[n] = NL
       /\ n >= 2 => out[n - 1] \notin {SP, NL}

\* s without its SGR sequences ESC [ digits m
RECURSIVE StripANSI(_)
StripANSI(s) ==
  IF s = <<>> THEN <<>>
  ELSE IF Head(s) = ESC
       THEN LET m == CHOOSE k \in 1..Len(s) : s[k] = "m" /\ \A j \in 1..(k - 1) : s[j] # "m"
            IN StripANSI(SubSeq(s, m + 1, Len(s)))
       ELSE <<Head(s)>> \o StripANSI(Tail(s))

\* the number of characters before the level token of a line without a
\* rewrite function
LevelCol(r) == IF r.Time # 0 THEN Len(FormatTime(r.Time)) + 1 ELSE 0

\* the token that starts after p characters of s is 5 characters wide: a
\* separator follows it and none is inside it after its first character
Width5(s, p) ==
  /\ Len(s) >= p + 6
  /\ s[p + 6] \in {SP, NL}
  /\ \A k \in (p + 2)..(p + 5) : s[k] \notin {SP, NL}

NamedLevels == {LevelDebug, LevelInfo, LevelWarn, LevelError}

\* C7 as stated: the level token is 5 characters wide for every level
C7_LevelWidthEveryLevel ==
  (Handled /\ LastH.replaceAttr = "nil") =>
    Width5(StripANSI(out), LevelCol(LastR))

\* C7: the level token is 5 characters wide for the levels Debug, Info,
\* Warn and Error; any other level is written as its slog name
C7_LevelWidthNamedLevels ==
  (Handled /\ LastH.replaceAttr = "nil") =>
    LET s == StripANSI(out)
        p == LevelCol(LastR)
        n == LevelString(LastR.Level)
    IN IF LastR.Level \in NamedLevels
       THEN Width5(s, p)
       ELSE /\ Len(s) > p + Len(n)
            /\ SubSeq(s, p + 1, p + Len(n)) = n
            /\ s[p + Len(n) + 1] \in {SP, NL}

\* a coloured DEBUG has been written
C7_Witness ==
  /\ Handled
  /\ LastH.replaceAttr = "nil"
  /\ LastR.Level = LevelDebug
  /\ ~LastH.noColor
  /\ out # StripANSI(out)

\* C8: with a zero time, no attributes, no pre-rendered attributes, no
\* rewrite function and no source, the line is the level token, one space,
\* the message and a newline, after trimming
C8_MinimalLine ==
  ( /\ Handled
    /\ LastR.Time = 0
    /\ Len(LastR.Attrs) = 0
    /\ LastH.attrsPrefix = <<>>
    /\ LastH.replaceAttr = "nil"
    /\ ~LastH.addSource ) =>
    out = TrimRight(appendLevel(<<>>, LastH, LastR.Level) \o <<SP>> \o LastR.Message)
            \o <<NL>>

\* the line " INFO hi" has been written
C8_Witness ==
  /\ Handled
  /\ last.arg = 1
  /\ LastH.attrsPrefix = <<>>
  /\ LastH.replaceAttr = "nil"
  /\ ~LastH.addSource
  /\ out = <<SP, "I", "N", "F", "O", SP, "h", "i", NL>>

\* attrs without the attributes that have an empty key and a value that
\* resolves to nil, at any depth of groups
RECURSIVE StripEmpty(_)
StripEmpty(attrs) ==
  IF attrs = <<>> THEN <<>>
  ELSE LET a == Head(attrs)
       IN IF a.key = <<>> /\ Resolve(a.val).kind = "nil" THEN StripEmpty(Tail(attrs))
          ELSE IF a.val.kind = "group"
               THEN <<A(a.key, V("group", StripEmpty(a.val.v)))>> \o StripEmpty(Tail(attrs))
               ELSE <<a>> \o StripEmpty(Tail(attrs))

\* C9: an attribute with an empty key and a nil value is left out of the
\* output: a record or a WithAttrs list renders as it does without it
C9_EmptyAttrElided ==
  /\ (last.op = "Handle" /\ StripEmpty(LastR.Attrs) # LastR.Attrs) =>
       /\ last.err # "panic"
       /\ out = LineOf(LastH, heap, [LastR EXCEPT !.Attrs = StripEmpty(@)])
  /\ (last.op = "WithAttrs" /\ StripEmpty(AttrLists[last.arg]) # AttrLists[last.arg]) =>
       /\ last.err # "panic"
       /\ handlers[last.ret].attrsPrefix =
            handlers[last.h].attrsPrefix
              \o WithAttrsRender(handlers[last.h], heap, StripEmpty(AttrLists[last.arg])).buf

\* a record with such an attribute inside a group has been written by a
\* handler whose WithAttrs list had one too
C9_Witness ==
  /\ Handled
  /\ last.arg = 5
  /\ LastH.replaceAttr = "nil"
  /\ Len(hist[last.h].pre) = 2
  /\ hist[last.h].pre[1] # hist[last.h].pre[2]

\* the leaves of attrs in pre-order, each with the dot-joined keys of its
\* enclosing named groups in front of its key
RECURSIVE Flatten(_, _)
Flatten(attrs, prefix) ==
  IF attrs = <<>> THEN <<>>
  ELSE LET a == Head(attrs)
           v == Resolve(a.val)
       IN (IF v.kind = "group"
           THEN Flatten(v.v, IF a.key = <<>> THEN prefix ELSE prefix \o a.key \o <<".">>)
           ELSE IF a.key = <<>> /\ v.kind = "nil" THEN <<>>
           ELSE <<A(prefix \o a.key, v)>>)
          \o Flatten(Tail(attrs), prefix)

ReservedKeys == {TimeKey, LevelKey, SourceKey, MessageKey}

\* every leaf of attrs has a key of its own that is not a built-in key
RECURSIVE LeafKeysPlain(_)
LeafKeysPlain(attrs) ==
  \A k \in DOMAIN attrs :
    LET v == Resolve(attrs[k].val)
    IN IF v.kind = "group" THEN LeafKeysPlain(v.v)
       ELSE \/ attrs[k].key = <<>> /\ v.kind = "nil"
            \/ attrs[k].key # <<>> /\ ToLower(attrs[k].key) \notin ReservedKeys

WithAttrsOnce(h, hp, attrs) ==
  IF Len(attrs) = 0 THEN h
  ELSE WithAttrsResult(h, WithAttrsRender(h, hp, attrs)).h

\* the handlers derived by WithAttrs from a handler derived by WithAttrs
C11_Pairs ==
  {n \in DOMAIN handlers :
     hist[n].op = "WithAttrs" /\ hist[hist[n].parent].op = "WithAttrs"}

C11_Records == {1, 2, 4}

\* C11: g.WithAttrs(A).WithAttrs(B) has the attrsPrefix of g.WithAttrs(A ++ B)
\* and writes the same line for a record
C11_WithAttrsAssociative ==
  \A n \in C11_Pairs :
    LET p == hist[n].parent
        g == hist[p].parent
        m == WithAttrsOnce(handlers[g], heap,
                           AttrLists[hist[p].arg] \o AttrLists[hist[n].arg])
    IN /\ handlers[n].attrsPrefix = m.attrsPrefix
       /\ \A ri \in C11_Records :
            LineOf(handlers[n], heap, Records[ri]) = LineOf(m, heap, Records[ri])

\* two WithAttrs calls with different lists have been chained, and their
\* text is in the line of a record
C11_Witness ==
  \E n \in C11_Pairs :
    /\ hist[n].arg # hist[hist[n].parent].arg
    /\ Len(hist[n].pre) = 2
    /\ hist[n].pre[1] # <<>> /\ hist[n].pre[2] # <<>>
    /\ Handled /\ last.h = n

\* the names joined with '.', each followed by one
DotJoin(names) == Concat([k \in 1..Len(names) |-> names[k] \o <<".">>])

\* the text of attrs written by h with every leaf key spelled out in full
\* after prefix, by a handler that has no key prefix of its own
TextWithPrefix(h, hp, attrs, prefix) ==
  LET h0 == [h EXCEPT !.groupPrefix = <<>>]
  IN appendAttrs(St0(hp), h0, Flatten(attrs, prefix), <<>>, h0.groups).buf

RECURSIVE WithoutKeys(_, _)
WithoutKeys(attrs, keys) ==
  IF attrs = <<>> THEN <<>>
  ELSE LET a == Head(attrs)
           v == Resolve(a.val)
       IN (IF v.kind = "group" THEN <<A(a.key, V("group", WithoutKeys(v.v, keys)))>>
           ELSE IF a.key \in keys THEN <<>>
           ELSE <<A(a.key, v)>>)
          \o WithoutKeys(Tail(attrs), keys)

\* h with no rewrite function
NoRep(h) == [h EXCEPT !.replaceAttr = "nil"]

\* the text h writes for attrs when it has no rewrite function
PlainText(h, hp, attrs) ==
  appendAttrs(St0(hp), NoRep(h), attrs, h.groupPrefix, h.groups).buf

RemovedKeys == {TimeKey, LevelKey, MessageKey}

\* C13: an attribute for which the rewrite function returns the zero
\* attribute leaves nothing in the output.  With a function that removes
\* everything the pre-rendered text is empty and the line is a newline;
\* with one that removes time, level and message the line is the source (if
\* any), and the key=value pairs of the other attributes
C13_ZeroAttrDropped ==
  /\ \A n \in DOMAIN handlers :
       /\ handlers[n].replaceAttr = "removeAll" => handlers[n].attrsPrefix = <<>>
       /\ (handlers[n].replaceAttr = "removeBuiltin" /\ hist[n].op = "WithAttrs") =>
            handlers[n].attrsPrefix =
              handlers[hist[n].parent].attrsPrefix
                \o PlainText(handlers[n], heap,
                             WithoutKeys(AttrLists[hist[n].arg], RemovedKeys))
  /\ (last.op = "Handle" /\ LastH.replaceAttr = "removeAll") =>
       /\ last.err # "panic"
       /\ out = <<NL>>
  /\ (last.op = "Handle" /\ LastH.replaceAttr = "removeBuiltin") =>
       /\ last.err # "panic"
       /\ out = Println(TrimRight(
                  PartText(HandleSource(St0(heap), NoRep(LastH), LastR))
                    \o LastH.attrsPrefix
                    \o PlainText(LastH, heap, WithoutKeys(LastR.Attrs, RemovedKeys))))

\* with time, level and message removed, record 2 has been written as its
\* source and its two attributes
C13_Witness ==
  /\ Handled
  /\ LastH.replaceAttr = "removeBuiltin"
  /\ last.arg = 2
  /\ out = <<"d","/","f",".","g","o",":","7",SP,"a","=","1",SP,
             "b","=",QT,"t","w","o",QT,NL>>

\* C14: the rewrite function is never called with an attribute whose value
\* is a group, whatever the attribute list
C14_NoGroupToRewrite ==
  \A k \in DOMAIN calls : calls[k].kind # "group"

\* a call of the rewrite function: the open groups and the key it gets
Call(groups, key) == [groups |-> groups, key |-> key]

CallsMade == [k \in DOMAIN calls |-> Call(calls[k].groups, calls[k].key)]

\* the calls the claim gives for attrs under the open groups: one per leaf
\* in pre-order, a group with a key opening one more group
RECURSIVE ClaimedCalls(_, _)
ClaimedCalls(attrs, groups) ==
  IF attrs = <<>> THEN <<>>
  ELSE LET a == Head(attrs)
       IN (IF a.val.kind = "group"
           THEN ClaimedCalls(a.val.v, IF a.key = <<>> THEN groups ELSE Append(groups, a.key))
           ELSE <<Call(groups, a.key)>>)
          \o ClaimedCalls(Tail(attrs), groups)

\* the calls for the built-in fields of record r on handler h
ClaimedBuiltinCalls(h, r) ==
  (IF r.Time # 0 THEN <<Call(<<>>, TimeKey)>> ELSE <<>>)
    \o <<Call(<<>>, LevelKey)>>
    \o (IF h.addSource /\ r.PC # 0 THEN <<Call(<<>>, SourceKey)>> ELSE <<>>)
    \o <<Call(<<>>, MessageKey)>>

\* C15: the rewrite function gets no open groups for the built-in fields,
\* and for an attribute the WithGroup names of the handler's chain followed
\* by the keys of the groups around it; calls are made in rendering order
C15_GroupsPassedToRewrite ==
  /\ (Handled /\ LastH.replaceAttr # "nil") =>
       CallsMade = ClaimedBuiltinCalls(LastH, LastR)
                     \o ClaimedCalls(LastR.Attrs, hist[last.h].names)
  /\ (last.op = "WithAttrs" /\ last.ret = Len(handlers)
        /\ handlers[last.h].replaceAttr # "nil") =>
       CallsMade = ClaimedCalls(AttrLists[last.arg], hist[last.h].names)

\* C16: Handle never ends in a runtime panic and always writes a line
C16_HandleNeverPanics ==
  last.op = "Handle" => (last.err # "panic" /\ out # <<>>)

\* the condition under which the claim has a key written without quotes
ClaimedPlainKey(s) ==
  /\ s # <<>>
  /\ \A i \in DOMAIN s : ~IsSpace(s[i]) /\ s[i] # QT /\ s[i] # "=" /\ IsPrint(s[i])

\* the key the claim has written for a key under a group prefix
ClaimedKey(prefix, key) ==
  IF key = <<>> THEN <<QT, QT>>
  ELSE IF ClaimedPlainKey(prefix \o key) THEN prefix \o key
  ELSE Quote(prefix \o key)

\* the leaves of attrs in pre-order, each with the prefix of its groups
RECURSIVE KeyValueLeaves(_, _)
KeyValueLeaves(attrs, prefix) ==
  IF attrs = <<>> THEN <<>>
  ELSE LET a == Head(attrs)
           v == Resolve(a.val)
       IN (IF v.kind = "group"
           THEN KeyValueLeaves(v.v, IF a.key = <<>> THEN prefix
                                    ELSE prefix \o a.key \o <<".">>)
           ELSE IF a.key = <<>> /\ v.kind = "nil" THEN <<>>
           ELSE << [prefix |-> prefix, key |-> a.key, val |-> v] >>)
          \o KeyValueLeaves(Tail(attrs), prefix)

\* every leaf is one that is written as key=value: no built-in key, and a
\* value that can be written
KeyValueOnly(leaves) ==
  \A k \in DOMAIN leaves :
    /\ ToLower(leaves[k].key) \notin ReservedKeys
    /\ leaves[k].val.kind # "nil"

\* key=value and a space, with the key as the claim has it
ClaimedLeafText(h, l) ==
  ClaimedKey(l.prefix, l.key) \o <<"=">>
    \o (IF l.val.kind = "err" THEN Quote(l.val.v) ELSE appendValue(<<>>, h, l.val).b)
    \o <<SP>>

\* what Handle writes before the attributes
HeadText(h, hp, r) ==
  HandleMessage(HandleSource(HandleLevel(HandleTime(St0(hp), h, r), h, r), h, r), h, r).buf

\* C17: a key is written as the group prefix followed by the key, without
\* quotes exactly if that is not empty and has no white space, no double
\* quote, no '=' and no unprintable character, else as a quoted string; an
\* empty key is written as ""  (handlers without colour and rewrite function)
C17_KeyQuoting ==
  LET leaves == KeyValueLeaves(LastR.Attrs, LastH.groupPrefix)
  IN (Handled /\ LastH.replaceAttr = "nil" /\ LastH.noColor /\ KeyValueOnly(leaves)) =>
       out = Println(TrimRight(
               HeadText(LastH, heap, LastR) \o LastH.attrsPrefix
                 \o Concat([k \in DOMAIN leaves |-> ClaimedLeafText(LastH, leaves[k])])))

\* the attributes with every byte-sequence value replaced by the string of
\* the same bytes, which appendValue always writes quoted
RECURSIVE BytesAsStrings(_)
BytesAsStrings(attrs) ==
  IF attrs = <<>> THEN <<>>
  ELSE LET a == Head(attrs)
       IN << (IF a.val.kind = "bytes" THEN slogString(a.key, a.val.v) ELSE a) >>
            \o BytesAsStrings(Tail(attrs))

HasBytes(attrs) == \E k \in DOMAIN attrs : attrs[k].val.kind = "bytes"

\* C18: a byte-sequence value is always written in double quotes, its
\* unprintable bytes as \xNN: the line is the line of the record with the
\* bytes given as a string (bytes NUL and ESC, which a quoted string has as
\* \x00 and \x1b)
C18_BytesAlwaysQuoted ==
  (Handled /\ last.err = "nil" /\ HasBytes(LastR.Attrs)) =>
    out = LineOf(LastH, heap, [LastR EXCEPT !.Attrs = BytesAsStrings(@)])

\* the handler a derivation has just made, and the one it was made from
Derived ==
  last.op \in {"WithGroup", "WithAttrs"} /\ last.ret = Len(handlers) /\ last.ret # last.h

C20_BelowMinimumDiscarded ==
  (last.op = "Log" /\ Records[last.arg].Level < LastH.level) =>
    /\ ~Enabled(LastH, Records[last.arg].Level)
    /\ last.ret = 0
    /\ out = <<>>

\* a Debug record logged to a handler of minimum level Info made from
\* options without a level
C20_Witness ==
  /\ last.op = "Log" /\ Records[last.arg].Level = LevelDebug
  /\ LastH.level = LevelInfo /\ hist[last.h].op = "NewHandler"
  /\ out = <<>>

\* the colour sequence the claim gives a level token, if any
LevelColour(level) ==
  CASE level = LevelDebug -> cliFgBlue
    [] level = LevelWarn  -> cliFgYellow
    [] level = LevelError -> cliFgRed
    [] OTHER              -> <<>>

\* s has t at the characters after its first p
HasAt(s, p, t) == Len(s) >= p + Len(t) /\ SubSeq(s, p + 1, p + Len(t)) = t

\* key=value and a space as the claim has it with colour: the key and '='
\* in a colour sequence (an error's key in two) that a reset closes before
\* the value
ColouredLeafText(h, l) ==
  cliFaint \o (IF l.val.kind = "err" THEN cliFgRed ELSE <<>>)
    \o (IF l.key = <<>> /\ l.val.kind # "err" THEN <<QT, QT>>
        ELSE appendAutoQuote(<<>>, l.prefix \o l.key))
    \o <<"=">> \o cliReset
    \o (IF l.val.kind = "err" THEN Quote(l.val.v) ELSE appendValue(<<>>, h, l.val).b)
    \o <<SP>>

\* C21: with the no-colour flag no line and no WithAttrs text has an escape
\* sequence; without it a Debug, Warn or Error token is written in its
\* colour and closed by a reset before the separator, the Info token is
\* written bare, and every key with its '=' is written in a colour sequence
\* closed by a reset before the value (handlers without rewrite function)
C21_ColourOnlyWithoutNoColor ==
  /\ \A i \in DOMAIN handlers :
       handlers[i].noColor => \A k \in DOMAIN handlers[i].attrsPrefix :
                                handlers[i].attrsPrefix[k] # ESC
  /\ (Handled /\ LastH.noColor) => \A k \in DOMAIN out : out[k] # ESC
  /\ (Handled /\ ~LastH.noColor /\ LastH.replaceAttr = "nil") =>
       LET leaves == KeyValueLeaves(LastR.Attrs, LastH.groupPrefix)
           p      == LevelCol(LastR)
           lvl    == LastR.Level
       IN /\ lvl \in {LevelDebug, LevelWarn, LevelError} =>
               \E c \in {SP, NL} :
                 HasAt(out, p, LevelColour(lvl)
                                 \o appendLevel(<<>>, [LastH EXCEPT !.noColor = TRUE], lvl)
                                 \o cliReset \o <<c>>)
          /\ lvl = LevelInfo =>
               \E c \in {SP, NL} : HasAt(out, p, <<SP, "I", "N", "F", "O", c>>)
          /\ KeyValueOnly(leaves) =>
               out = Println(TrimRight(
                       HeadText(LastH, heap, LastR) \o LastH.attrsPrefix
                         \o Concat([k \in DOMAIN leaves |->
                                      ColouredLeafText(LastH, leaves[k])])))

\* a Warn record with attributes inside a group, written in colour by a
\* handler derived with WithAttrs
C21_Witness ==
  /\ Handled /\ ~LastH.noColor /\ LastH.replaceAttr = "nil"
  /\ LastR.Level = LevelWarn
  /\ LastH.attrsPrefix # <<>>
  /\ \E k \in DOMAIN LastR.Attrs : LastR.Attrs[k].val.kind = "group"
  /\ \E k \in DOMAIN out : out[k] = ESC

\* the configuration of a handler
Configuration(h) == <<h.level, h.noColor, h.replaceAttr, h.addSource>>

\* C22: no operation changes the configuration of a handler that exists,
\* so Enabled answers the same for it throughout its life
C22_ConfigurationFixed ==
  [][\A i \in DOMAIN handlers :
       /\ Configuration(handlers'[i]) = Configuration(handlers[i])
       /\ \A l \in LevelSet : Enabled(handlers'[i], l) = Enabled(handlers[i], l)]_vars

\* the level and the writer the claim gives each print function
DebugFns == {"Debug", "Debugf", "Debugln"}
InfoFns  == {"Info", "Infof", "Infoln"}
WarnFns  == {"Warn", "Warnf", "Warnln"}
ErrorFns == {"Error", "Errorf", "Errorln"}

ClaimedPrintLevel(fn) ==
  CASE fn \in DebugFns -> 0
    [] fn \in InfoFns  -> 1
    [] fn \in WarnFns  -> 2
    [] fn \in ErrorFns -> 3

ClaimedWriter(fn) == IF fn \in ErrorFns THEN "errWriter" ELSE "outWriter"

OtherWriter(w) == IF w = "outWriter" THEN "errWriter" ELSE "outWriter"

\* the text is the message, with or without a newline and a colour
IsMessage(text, msg) == StripANSI(text) \in {msg, msg \o <<NL>>}

ContainsText(s, t) ==
  \E o \in 0..Len(s) :
    /\ HasAt(s, o, t)
    /\ Len(s) > o + Len(t)
    /\ s[o + Len(t) + 1] \in {SP, NL}

\* attrs has a LogValuer, in a group or not
RECURSIVE HasValuer(_)
HasValuer(attrs) ==
  \E k \in DOMAIN attrs :
    \/ attrs[k].val.kind = "valuer"
    \/ attrs[k].val.kind = "group" /\ HasValuer(attrs[k].val.v)

\* the keys the rewrite function was called with, in call order
KeysCalled == [k \in DOMAIN calls |-> calls[k].key]

ClaimedKeys(cs) == [k \in DOMAIN cs |-> cs[k].key]

\* C24: WithAttrs passes each attribute it is given to the rewrite function
\* once, in order; Handle passes only the built-in fields and the record's
\* own attributes; a handler's text is the texts its WithAttrs calls
\* rendered, one after the other, and every line it writes has that text
C24_PreRenderedOnce ==
  /\ (last.op = "WithAttrs" /\ last.ret = Len(handlers) /\ last.ret # last.h
        /\ handlers[last.h].replaceAttr # "nil") =>
       KeysCalled = ClaimedKeys(ClaimedCalls(AttrLists[last.arg], <<>>))
  /\ (Handled /\ LastH.replaceAttr # "nil" /\ ~HasValuer(LastR.Attrs)) =>
       KeysCalled = ClaimedKeys(ClaimedBuiltinCalls(LastH, LastR)
                                  \o ClaimedCalls(LastR.Attrs, <<>>))
  /\ \A i \in DOMAIN handlers : handlers[i].attrsPrefix = Concat(hist[i].pre)
  /\ Handled => \/ TrimRight(Concat(hist[last.h].pre)) = <<>>
                \/ ContainsText(out, TrimRight(Concat(hist[last.h].pre)))

\* a line with attributes of its own from a handler with a rewrite
\* function, derived by WithAttrs and then once more
C24_Witness ==
  /\ Handled /\ LastH.replaceAttr # "nil"
  /\ last.h = 3 /\ hist[2].op = "WithAttrs" /\ hist[3].parent = 2
  /\ TrimRight(Concat(hist[3].pre)) # <<>>
  /\ Len(LastR.Attrs) > 0 /\ Len(calls) > 2

\* the text of a value as it is, with no quotes
BareText(v) ==
  CASE v.kind = "str" -> v.v
    [] v.kind = "int" -> Itoa(v.v)
    [] v.kind = "err" -> v.v

\* a leaf as the claim has it written by handler h: the bare value and a
\* space for the message key, else whatever the handler writes for it
MsgLeafText(h, hp, l) ==
  IF ToLower(l.key) = MessageKey
  THEN BareText(l.val) \o <<SP>>
  ELSE appendAttr(St0(hp), h, A(l.key, l.val), l.prefix, NilSlice).buf

MsgLeavesText(h, hp, attrs) ==
  LET leaves == KeyValueLeaves(attrs, h.groupPrefix)
  IN Concat([k \in DOMAIN leaves |-> MsgLeafText(h, hp, leaves[k])])

HasMsgKey(attrs) ==
  LET leaves == KeyValueLeaves(attrs, <<>>)
  IN \E k \in DOMAIN leaves : ToLower(leaves[k].key) = MessageKey

C26_PoolInvariant ==
  \A k \in DOMAIN bufs :
    /\ bufs[k].in = "pool" => (bufs[k].len = 0 /\ bufs[k].cap <= 16 * 1024)
    /\ bufs[k].got = 0
    /\ bufs[k].cap > 16 * 1024 => bufs[k].in # "pool"

\* a buffer that was written to and released is held again, grown but
\* empty, while a buffer grown beyond 16 KiB has been dropped
C26_Witness ==
  \E k, j \in DOMAIN bufs :
    /\ bufs[k].in = "held" /\ bufs[k].len = 0
    /\ bufs[k].cap > bufCap0 /\ bufs[k].cap <= maxBufferSize
    /\ bufs[j].in = "gone" /\ bufs[j].cap > maxBufferSize

\* the calls that have not returned
Running == {c \in DOMAIN inflight : inflight[c].pc # "done"}

\* C27: no buffer is held by two running calls; a running call holds its
\* buffer, which has what that call has rendered so far and nothing else,
\* and a call that has returned holds none; a Handle call that has returned
\* has made one write, of the line of its record, and a WithAttrs call that
\* has returned has stored the text of its attributes
C27_BuffersExclusive ==
  /\ \A c, d \in Running : c # d => inflight[c].buf # inflight[d].buf
  /\ \A c \in Running :
       /\ bufs[inflight[c].buf].in = "held"
       /\ inflight[c].pc # "free" => bufs[inflight[c].buf].data = inflight[c].sofar
  /\ \A k \in DOMAIN bufs :
       bufs[k].in = "held" => \E c \in Running : inflight[c].buf = k
  /\ \A c \in DOMAIN inflight \ Running :
       LET call == inflight[c]
       IN IF call.panic THEN call.nw = 0 /\ call.ret = 0
          ELSE IF call.op = "Handle"
          THEN /\ call.nw = 1
               /\ call.wrote = LineOf(handlers[call.h], heap, Records[call.arg])
          ELSE handlers[call.ret].attrsPrefix =
                 WithAttrsOnce(handlers[call.h], heap, AttrLists[call.arg]).attrsPrefix

\* two Handle calls have rendered their lines into two buffers and neither
\* has written yet
C27_Witness ==
  \E c, d \in Running :
    /\ c # d
    /\ inflight[c].pc = "result" /\ inflight[d].pc = "result"
    /\ inflight[c].op = "Handle" /\ inflight[d].op = "Handle"
    /\ inflight[c].arg # inflight[d].arg \/ inflight[c].h # inflight[d].h
    /\ bufs[inflight[c].buf].data # <<>>

\* n zeros
RECURSIVE Zeros(_)
Zeros(n) == IF n <= 0 THEN <<>> ELSE <<"0">> \o Zeros(n - 1)

\* the decimal digits of i after as many zeros as make width characters
PaddedDigits(i, width) == Zeros(width - Len(Utoa(i))) \o Utoa(i)

\* C28: for i >= 0 and width >= 0, WritePosIntWidth(i, width) adds to the
\* buffer the decimal digits of i after as many zeros as make width
\* characters, and leaves what the buffer had as it was
C28_PaddedDigitsAppended ==
  (last.op = "WritePosIntWidth" /\ last.arg >= 0 /\ last.width >= 0) =>
    /\ last.err = "nil"
    /\ bufs[last.h].data = last.pre \o PaddedDigits(last.arg, last.width)

\* C29: WritePosIntWidth with a negative number or a negative width panics
\* and adds nothing to the buffer
C29_NegativePanics ==
  (last.op = "WritePosIntWidth" /\ (last.arg < 0 \/ last.width < 0)) =>
    /\ last.err = "panic"
    /\ bufs[last.h].data = last.pre

====
